---- MODULE Spec2Model ----
(***************************************************************************)
(* Model of the three back ends of the semantic file search service:       *)
(*   backend/app_scalable.py  ScalableSearchEngine over InMemorySearch and *)
(*                            VectorDatabaseSearch                         *)
(*   backend/app_simple.py    SemanticSearch with a replaceable index      *)
(*   backend/app.py           stateless SemanticSearch.search              *)
(* A process runs exactly one of them; Init chooses which.                 *)
(*                                                                         *)
(* Texts are sequences of one-character strings.  A Python dict is a       *)
(* sequence of [key, val] entries in insertion order.  A similarity score  *)
(* is an exact rational <<num, den>> in lowest terms (den > 0); the value  *)
(* NaN is <<0, 0>>.                                                        *)
(***************************************************************************)
EXTENDS Integers, Sequences, FiniteSets, TLC

VARIABLES
    app,                \* which program the process runs
    VECTOR_DB_ENABLED,  \* app_scalable.py: module flag read from the environment
    file_count,         \* ScalableSearchEngine.file_count
    current_mode,       \* ScalableSearchEngine.current_mode
    in_memory_search,   \* InMemorySearch: [file_embeddings, file_contents]
    vector_db_search,   \* VectorDatabaseSearch: [vector_db, file_contents]
    file_contents,      \* app_simple.py SemanticSearch.file_contents
    embeddings,         \* app_simple.py SemanticSearch.embeddings
    uploaded_files_storage, \* app_simple.py: the module's dict of uploads
    latest,             \* text passed by the most recent add of each filename
    call,               \* the last call made and its arguments
    result              \* what that call returned

vars == <<app, VECTOR_DB_ENABLED, file_count, current_mode, in_memory_search,
          vector_db_search, file_contents, embeddings, uploaded_files_storage,
          latest, call, result>>

scalable_vars == <<file_count, current_mode, in_memory_search, vector_db_search>>
simple_vars == <<file_contents, embeddings>>

----------------------------------------------------------------------------
(* Program constants *)

IN_MEMORY_THRESHOLD == 100
SNIPPET_LENGTH == 300
DEFAULT_TOP_K == 10
SIMPLE_DEFAULT_TOP_K == 5

\* 0.1 as a rational
MIN_SIMILARITY_THRESHOLD == <<1, 10>>

\* None where a text is expected
None == <<"None">>
\* SemanticSearch.embeddings: None, or the encoded rows
NoTensor == [is_none |-> TRUE, rows |-> <<>>]
Tensor(rows) == [is_none |-> FALSE, rows |-> rows]
NaN == <<0, 0>>

----------------------------------------------------------------------------
(* Bounds of the model *)

\* documents in one ordinary add_files call of ScalableSearchEngine
MaxBatch == 2
\* how far file_count may run past IN_MEMORY_THRESHOLD
MaxExtra == 2
\* documents in one upload to app_simple.py
MaxFiles == 3
\* documents in one upload to app.py
MaxAppFiles == 2

----------------------------------------------------------------------------
(* Input sets *)

TextA == <<"a", "\n", "a">>
TextD == <<"d", " ">>
TextN == <<"n">>

Filenames == {"a.txt", "My File.txt"}
Queries == {<<"a">>, <<"b">>}
TopKs == {-1, 1, DEFAULT_TOP_K}

MakeDoc(f, t) == [filename |-> f, content |-> t, file_path |-> f]
\* documents uploaded to app_scalable.py: "a.txt" comes in two versions
Docs == {MakeDoc("a.txt", TextA), MakeDoc("a.txt", TextD), MakeDoc("My File.txt", TextA)}

SeqsUpTo(S, n) == UNION {[1..k -> S] : k \in 0..n}

\* ordinary batches, and uploads of a whole threshold's worth of files in a
\* single call (the same filename over and over, its text alternating)
Batches == SeqsUpTo(Docs, MaxBatch)
BulkBatches ==
    {[i \in 1..n |-> MakeDoc("a.txt", IF i % 2 = 1 THEN TextD ELSE TextA)] :
        n \in {IN_MEMORY_THRESHOLD, IN_MEMORY_THRESHOLD + 1}}

\* uploads to app_simple.py; the query "z" encodes to the zero vector
SimpleQueries == Queries \cup {<<"z">>}
SimpleBatches == SeqsUpTo(Docs, MaxFiles)

\* uploads to app.py; TextN scores -1 against the query "a"
AppBatches ==
    SeqsUpTo({MakeDoc("a.txt", TextA), MakeDoc("My File.txt", TextA),
              MakeDoc("a.txt", TextN)}, MaxAppFiles)

----------------------------------------------------------------------------
(* Arithmetic on scores *)

Abs(x) == IF x < 0 THEN -x ELSE x

RECURSIVE Gcd(_, _)
Gcd(a, b) == IF b = 0 THEN a ELSE Gcd(b, a % b)

Rat(n, d) ==
    LET g == Gcd(Abs(n), d) IN <<n \div g, d \div g>>

IsNaN(s) == s[2] = 0

\* s >= t on floats: false when either side is NaN
ScoreGE(s, t) == ~IsNaN(s) /\ ~IsNaN(t) /\ s[1] * t[2] >= t[1] * s[2]
ScoreGT(s, t) == ~IsNaN(s) /\ ~IsNaN(t) /\ s[1] * t[2] > t[1] * s[2]
ScoreLT(s, t) == ~IsNaN(s) /\ ~IsNaN(t) /\ s[1] * t[2] < t[1] * s[2]

Dot(a, b) == a[1]*b[1] + a[2]*b[2] + a[3]*b[3] + a[4]*b[4]

\* np.linalg.norm; the vectors of the model have integral norms
Norm(a) == CHOOSE r \in 0..Dot(a, a) : r * r = Dot(a, a)

----------------------------------------------------------------------------
(* Embedding provider: SentenceTransformer.encode, a deterministic map from *)
(* text to a vector of fixed dimension 4.  The model lets the first         *)
(* character of the text decide the vector.                                 *)

ZeroVector == <<0, 0, 0, 0>>

Encode(text) ==
    IF text = <<>> THEN ZeroVector
    ELSE CASE text[1] = "a" -> <<10, 0, 0, 0>>
           [] text[1] = "b" -> <<0, 10, 0, 0>>
           [] text[1] = "c" -> <<6, 8, 0, 0>>
           [] text[1] = "d" -> <<1, 9, 3, 3>>
           [] text[1] = "n" -> <<-10, 0, 0, 0>>
           [] OTHER -> ZeroVector

\* app_scalable.py cosine_similarity: 0.0 when either norm is zero
cosine_similarity(a, b) ==
    LET dot_product == Dot(a, b)
        norm_a == Norm(a)
        norm_b == Norm(b)
    IN  IF norm_a = 0 \/ norm_b = 0 THEN <<0, 1>>
        ELSE Rat(dot_product, norm_a * norm_b)

\* app_simple.py SemanticSearch.cosine_similarity: rows are divided by their
\* norms without a guard, so a zero row becomes NaN and so does its score
simple_cosine_similarity(a, b) ==
    IF Norm(a) = 0 \/ Norm(b) = 0 THEN NaN
    ELSE Rat(Dot(a, b), Norm(a) * Norm(b))

\* app.py uses sklearn's cosine_similarity, which leaves zero rows at zero
sklearn_cosine_similarity(a, b) ==
    IF Norm(a) = 0 \/ Norm(b) = 0 THEN <<0, 1>>
    ELSE Rat(Dot(a, b), Norm(a) * Norm(b))

----------------------------------------------------------------------------
(* Excerpt: text[:300].replace('\n', ' ').strip(), "..." added when the     *)
(* text is longer than 300                                                  *)

Whitespace == {" ", "\t", "\n", "\r"}

Take(s, n) == SubSeq(s, 1, IF Len(s) < n THEN Len(s) ELSE n)

ReplaceNewline(s) == [i \in 1..Len(s) |-> IF s[i] = "\n" THEN " " ELSE s[i]]

Strip(s) ==
    LET keep == {i \in 1..Len(s) : s[i] \notin Whitespace}
    IN  IF keep = {} THEN <<>>
        ELSE LET lo == CHOOSE i \in keep : \A j \in keep : i <= j
                 hi == CHOOSE i \in keep : \A j \in keep : i >= j
             IN  SubSeq(s, lo, hi)

Ellipsis == <<".", ".", ".">>

\* faulty variant: a text of exactly 300 characters already gets the "..."
SnippetMarksFullLength(text) ==
    LET snippet == Strip(ReplaceNewline(Take(text, SNIPPET_LENGTH)))
    IN  IF Len(text) >= SNIPPET_LENGTH THEN snippet \o Ellipsis ELSE snippet

Snippet(text) ==
    LET snippet == Strip(ReplaceNewline(Take(text, SNIPPET_LENGTH)))
    IN  IF Len(text) > SNIPPET_LENGTH THEN snippet \o Ellipsis ELSE snippet

----------------------------------------------------------------------------
(* Python dict: entries in insertion order; assigning an existing key keeps *)
(* its position and replaces its value                                      *)

DictKeys(d) == {d[i].key : i \in 1..Len(d)}

DictGet(d, k) ==
    IF k \in DictKeys(d)
    THEN d[CHOOSE i \in 1..Len(d) : d[i].key = k].val
    ELSE None

\* faulty variant: every assignment appends a new entry
DictSetAppends(d, k, v) == Append(d, [key |-> k, val |-> v])

DictSet(d, k, v) ==
    IF k \in DictKeys(d)
    THEN [i \in 1..Len(d) |-> IF d[i].key = k THEN [key |-> k, val |-> v] ELSE d[i]]
    ELSE Append(d, [key |-> k, val |-> v])

----------------------------------------------------------------------------
(* Ranking: list.sort(key=score, reverse=True) is stable, then results[:k]  *)

\* faulty variant: r goes in front of the elements that tie with it
InsertDescUnstable(s, r) ==
    LET ahead == {i \in 1..Len(s) : ScoreGT(s[i].similarity_score, r.similarity_score)}
        n == IF ahead = {} THEN 0 ELSE CHOOSE i \in ahead : \A j \in ahead : j <= i
    IN  SubSeq(s, 1, n) \o <<r>> \o SubSeq(s, n + 1, Len(s))

\* s with r inserted behind every element whose score is not below r's
InsertDesc(s, r) ==
    LET ahead == {i \in 1..Len(s) : ~ScoreLT(s[i].similarity_score, r.similarity_score)}
        n == IF ahead = {} THEN 0 ELSE CHOOSE i \in ahead : \A j \in ahead : j <= i
    IN  SubSeq(s, 1, n) \o <<r>> \o SubSeq(s, n + 1, Len(s))

RECURSIVE SortDescFrom(_, _, _)
SortDescFrom(sorted, s, i) ==
    IF i > Len(s) THEN sorted
    ELSE SortDescFrom(InsertDesc(sorted, s[i]), s, i + 1)

SortDesc(s) == SortDescFrom(<<>>, s, 1)

\* results[:top_k] with Python's slice semantics for any integer
Slice(s, top_k) ==
    LET stop == IF top_k >= 0
                THEN (IF top_k < Len(s) THEN top_k ELSE Len(s))
                ELSE (IF Len(s) + top_k > 0 THEN Len(s) + top_k ELSE 0)
    IN  SubSeq(s, 1, stop)

MakeResult(filename, text, similarity, path) ==
    [filename |-> filename,
     content_snippet |-> Snippet(text),
     similarity_score |-> similarity,
     file_path |-> path]

Ok(v) == [status |-> "ok", value |-> v]
Raised(e) == [status |-> "error", error |-> e]

----------------------------------------------------------------------------
(* app_scalable.py: InMemorySearch *)

NewInMemorySearch == [file_embeddings |-> <<>>, file_contents |-> <<>>]

\* one turn of the loop of add_files
InMemoryAddOne(self, content) ==
    LET filename == content.filename
        text == content.content
        embedding == Encode(text)
    IN  [file_embeddings |-> DictSet(self.file_embeddings, filename, embedding),
         file_contents |-> DictSet(self.file_contents, filename, text)]

\* the loop over batch[lo..hi], left to right; the range is halved and
\* the left half computed first, which keeps the evaluation shallow
RECURSIVE InMemoryAddRange(_, _, _, _)
InMemoryAddRange(self, batch, lo, hi) ==
    IF lo > hi THEN self
    ELSE IF lo = hi THEN InMemoryAddOne(self, batch[lo])
    ELSE LET mid == (lo + hi) \div 2
             left == InMemoryAddRange(self, batch, lo, mid)
         IN  IF Len(left.file_contents) > 0
             THEN InMemoryAddRange(left, batch, mid + 1, hi)
             ELSE left  \* not taken: left holds batch[lo]

InMemory_add_files(self, batch) == InMemoryAddRange(self, batch, 1, Len(batch))

\* the test "similarity >= 0.1"
AboveThreshold(similarity) == ScoreGE(similarity, MIN_SIMILARITY_THRESHOLD)

InMemory_search(self, query, top_k) ==
    IF self.file_embeddings = <<>> THEN <<>>
    ELSE LET query_embedding == Encode(query)
             fe == self.file_embeddings
             scored == [i \in 1..Len(fe) |->
                          MakeResult(fe[i].key, DictGet(self.file_contents, fe[i].key),
                                     cosine_similarity(query_embedding, fe[i].val),
                                     fe[i].key)]
             results == SelectSeq(scored, LAMBDA r : AboveThreshold(r.similarity_score))
         IN  Slice(SortDesc(results), top_k)

InMemory_get_file_content(self, filename) == DictGet(self.file_contents, filename)

----------------------------------------------------------------------------
(* app_scalable.py: VectorDatabaseSearch.  The uploaded_at timestamp of the *)
(* metadata is never read and is left out.                                  *)

NewVectorDatabaseSearch == [vector_db |-> <<>>, file_contents |-> <<>>]

VectorDbAddOne(self, content) ==
    LET filename == content.filename
        text == content.content
        embedding == Encode(text)
        entry == [embedding |-> embedding,
                  metadata |-> [filename |-> filename, content_length |-> Len(text)]]
    IN  [vector_db |-> DictSet(self.vector_db, filename, entry),
         file_contents |-> DictSet(self.file_contents, filename, text)]

RECURSIVE VectorDbAddRange(_, _, _, _)
VectorDbAddRange(self, batch, lo, hi) ==
    IF lo > hi THEN self
    ELSE IF lo = hi THEN VectorDbAddOne(self, batch[lo])
    ELSE LET mid == (lo + hi) \div 2
             left == VectorDbAddRange(self, batch, lo, mid)
         IN  IF Len(left.file_contents) > 0
             THEN VectorDbAddRange(left, batch, mid + 1, hi)
             ELSE left  \* not taken: left holds batch[lo]

VectorDb_add_files(self, batch) == VectorDbAddRange(self, batch, 1, Len(batch))

VectorDb_search(self, query, top_k) ==
    IF self.vector_db = <<>> THEN <<>>
    ELSE LET query_embedding == Encode(query)
             db == self.vector_db
             scored == [i \in 1..Len(db) |->
                          MakeResult(db[i].key, DictGet(self.file_contents, db[i].key),
                                     cosine_similarity(query_embedding, db[i].val.embedding),
                                     db[i].key)]
             results == SelectSeq(scored, LAMBDA r : AboveThreshold(r.similarity_score))
         IN  Slice(SortDesc(results), top_k)

VectorDb_get_file_content(self, filename) == DictGet(self.file_contents, filename)

----------------------------------------------------------------------------
(* app_scalable.py: ScalableSearchEngine, as a record                       *)
(* [file_count, current_mode, in_memory_search, vector_db_search]           *)

\* faulty variant: the threshold itself already counts as large
SelectModeStrict(count, enabled) ==
    IF count < IN_MEMORY_THRESHOLD /\ ~enabled THEN "in_memory" ELSE "vector_db"

\* faulty variant: the flag is not consulted
SelectModeNoFlag(count, enabled) ==
    IF count <= IN_MEMORY_THRESHOLD THEN "in_memory" ELSE "vector_db"

\* the routing test of add_files
SelectMode(count, enabled) ==
    IF count <= IN_MEMORY_THRESHOLD /\ ~enabled THEN "in_memory" ELSE "vector_db"

\* the two branches of add_files once the count and the mode are known
RouteAdd(self, count, mode, batch) ==
    IF mode = "in_memory"
    THEN [file_count |-> count,
          current_mode |-> "in_memory",
          in_memory_search |-> InMemory_add_files(self.in_memory_search, batch),
          vector_db_search |-> self.vector_db_search]
    ELSE [file_count |-> count,
          current_mode |-> "vector_db",
          in_memory_search |-> self.in_memory_search,
          vector_db_search |-> VectorDb_add_files(self.vector_db_search, batch)]

\* faulty variant: the policy looks at the size of the batch, not at the running count
ScalableAddRoutesOnBatchSize(self, enabled, batch) ==
    RouteAdd(self, self.file_count + Len(batch), SelectMode(Len(batch), enabled), batch)

\* faulty variant: the policy is evaluated before the count is increased
ScalableAddRoutesBeforeCounting(self, enabled, batch) ==
    RouteAdd(self, self.file_count + Len(batch), SelectMode(self.file_count, enabled), batch)

\* faulty variant: on the switch to vector_db the in-memory documents are carried over
ScalableAddMigrates(self, enabled, batch) ==
    LET count == self.file_count + Len(batch)
        mode == SelectMode(count, enabled)
        held == self.in_memory_search.file_contents
        carried == [i \in 1..Len(held) |-> MakeDoc(held[i].key, held[i].val)]
    IN  IF self.current_mode = "in_memory" /\ mode = "vector_db"
        THEN RouteAdd(self, count, mode, carried \o batch)
        ELSE RouteAdd(self, count, mode, batch)

\* faulty variant: only names that no backend holds yet are counted
ScalableAddCountsNewNames(self, enabled, batch) ==
    LET held == DictKeys(self.in_memory_search.file_contents)
                  \cup DictKeys(self.vector_db_search.file_contents)
        fresh == {batch[i].filename : i \in 1..Len(batch)} \ held
        count == self.file_count + Cardinality(fresh)
        mode == SelectMode(count, enabled)
    IN  RouteAdd(self, count, mode, batch)

Scalable_add_files(self, enabled, batch) ==
    LET count == self.file_count + Len(batch)
        mode == SelectMode(count, enabled)
    IN  RouteAdd(self, count, mode, batch)

Scalable_search(self, query, top_k) ==
    IF self.current_mode = "in_memory"
    THEN InMemory_search(self.in_memory_search, query, top_k)
    ELSE VectorDb_search(self.vector_db_search, query, top_k)

Scalable_get_file_content(self, filename) ==
    IF self.current_mode = "in_memory"
    THEN InMemory_get_file_content(self.in_memory_search, filename)
    ELSE VectorDb_get_file_content(self.vector_db_search, filename)

Scalable_get_status(self, enabled) ==
    [mode |-> self.current_mode,
     file_count |-> self.file_count,
     threshold |-> IN_MEMORY_THRESHOLD,
     vector_db_enabled |-> enabled]

\* the engine object assembled from the state variables
search_engine ==
    [file_count |-> file_count,
     current_mode |-> current_mode,
     in_memory_search |-> in_memory_search,
     vector_db_search |-> vector_db_search]

\* latest after the documents of batch were passed to add: the last
\* occurrence of a filename in the batch wins
LatestAfter(l, batch) ==
    [f \in DOMAIN l |->
        LET at == {i \in 1..Len(batch) : batch[i].filename = f}
        IN  IF at = {} THEN l[f]
            ELSE batch[CHOOSE i \in at : \A j \in at : j <= i].content]

----------------------------------------------------------------------------
(* app_simple.py: SemanticSearch, as a record [file_contents, embeddings]   *)

Simple_add_files(self, batch) ==
    [file_contents |-> batch,
     embeddings |-> IF batch # <<>>
                    THEN Tensor([i \in 1..Len(batch) |-> Encode(batch[i].content)])
                    ELSE self.embeddings]

\* faulty variant: search does not look for an empty index
SimpleIndexEmptyNotChecked(self) == FALSE

\* the guard "not self.file_contents or self.embeddings is None"
SimpleIndexEmpty(self) == self.file_contents = <<>> \/ self.embeddings.is_none

Simple_search(self, query, top_k) ==
    IF SimpleIndexEmpty(self) THEN Ok(<<>>)
    ELSE IF self.embeddings.is_none
    THEN Raised("TypeError")   \* np.linalg.norm(None, axis=1)
    ELSE LET query_embedding == Encode(query)
             rows == self.embeddings.rows
             \* zip stops at the shorter of the two
             n == IF Len(rows) < Len(self.file_contents)
                  THEN Len(rows) ELSE Len(self.file_contents)
             scored == [i \in 1..n |->
                          MakeResult(self.file_contents[i].filename,
                                     self.file_contents[i].content,
                                     simple_cosine_similarity(query_embedding,
                                                              rows[i]),
                                     self.file_contents[i].file_path)]
             results == SelectSeq(scored, LAMBDA r : AboveThreshold(r.similarity_score))
         IN  Ok(Slice(SortDesc(results), top_k))

----------------------------------------------------------------------------
(* app.py: SemanticSearch.search(query, file_contents, top_k), stateless and *)
(* without a minimum score                                                   *)

App_search_results(query, batch, top_k) ==
    IF batch = <<>> THEN <<>>
    ELSE LET query_embedding == Encode(query)
             results == [i \in 1..Len(batch) |->
                           MakeResult(batch[i].filename, batch[i].content,
                                      sklearn_cosine_similarity(query_embedding,
                                                                Encode(batch[i].content)),
                                      batch[i].file_path)]
         IN  Slice(SortDesc(results), top_k)

----------------------------------------------------------------------------
(* State machine *)

Programs == {"app_scalable", "app_simple", "app"}

Init ==
    /\ app \in Programs
    /\ VECTOR_DB_ENABLED \in (IF app = "app_scalable" THEN BOOLEAN ELSE {FALSE})
    /\ file_count = 0
    /\ current_mode = "in_memory"
    /\ in_memory_search = NewInMemorySearch
    /\ vector_db_search = NewVectorDatabaseSearch
    /\ file_contents = <<>>
    /\ embeddings = NoTensor
    /\ uploaded_files_storage = <<>>
    /\ latest = [f \in Filenames |-> None]
    /\ call = [op |-> "init"]
    /\ result = Ok(None)

\* ScalableSearchEngine.add_files(batch)
AddFiles(batch) ==
    /\ app = "app_scalable"
    /\ file_count + Len(batch) <= IN_MEMORY_THRESHOLD + MaxExtra
    /\ \E after \in {Scalable_add_files(search_engine, VECTOR_DB_ENABLED, batch)} :
          /\ file_count' = after.file_count
          /\ current_mode' = after.current_mode
          /\ in_memory_search' = after.in_memory_search
          /\ vector_db_search' = after.vector_db_search
    /\ latest' = LatestAfter(latest, batch)
    /\ call' = [op |-> "add_files", files |-> batch]
    /\ result' = Ok(None)
    /\ UNCHANGED <<app, VECTOR_DB_ENABLED, simple_vars, uploaded_files_storage>>

Engine_add_files == \E batch \in Batches \cup BulkBatches : AddFiles(batch)

Engine_search ==
    /\ app = "app_scalable"
    /\ \E query \in Queries, top_k \in TopKs :
          /\ call' = [op |-> "search", query |-> query, top_k |-> top_k]
          /\ result' = Ok(Scalable_search(search_engine, query, top_k))
    /\ UNCHANGED <<app, VECTOR_DB_ENABLED, scalable_vars, simple_vars,
                 uploaded_files_storage, latest>>

Engine_get_file_content ==
    /\ app = "app_scalable"
    /\ \E filename \in Filenames :
          /\ call' = [op |-> "get_file_content", filename |-> filename]
          /\ result' = Ok(Scalable_get_file_content(search_engine, filename))
    /\ UNCHANGED <<app, VECTOR_DB_ENABLED, scalable_vars, simple_vars,
                 uploaded_files_storage, latest>>

Engine_get_status ==
    /\ app = "app_scalable"
    /\ call' = [op |-> "get_status"]
    /\ result' = Ok(Scalable_get_status(search_engine, VECTOR_DB_ENABLED))
    /\ UNCHANGED <<app, VECTOR_DB_ENABLED, scalable_vars, simple_vars,
                 uploaded_files_storage, latest>>

\* app_simple.py SemanticSearch.add_files(batch)
SimpleAddFiles(batch) ==
    /\ app = "app_simple"
    /\ LET after == Simple_add_files([file_contents |-> file_contents,
                                      embeddings |-> embeddings], batch)
       IN  /\ file_contents' = after.file_contents
           /\ embeddings' = after.embeddings
    /\ call' = [op |-> "add_files", files |-> batch]
    /\ result' = Ok(None)
    /\ UNCHANGED <<app, VECTOR_DB_ENABLED, scalable_vars, uploaded_files_storage, latest>>

Simple_add == \E batch \in SimpleBatches : SimpleAddFiles(batch)

Simple_search_call ==
    /\ app = "app_simple"
    /\ \E query \in SimpleQueries, top_k \in TopKs \cup {SIMPLE_DEFAULT_TOP_K} :
          /\ call' = [op |-> "search", query |-> query, top_k |-> top_k]
          /\ result' = Simple_search([file_contents |-> file_contents,
                                      embeddings |-> embeddings], query, top_k)
    /\ UNCHANGED <<app, VECTOR_DB_ENABLED, scalable_vars, simple_vars,
                 uploaded_files_storage, latest>>

App_search ==
    /\ app = "app"
    /\ \E query \in Queries, batch \in AppBatches, top_k \in TopKs :
          /\ call' = [op |-> "search", query |-> query, files |-> batch, top_k |-> top_k]
          /\ result' = Ok(App_search_results(query, batch, top_k))
    /\ UNCHANGED <<app, VECTOR_DB_ENABLED, scalable_vars, simple_vars,
                 uploaded_files_storage, latest>>

Next ==
    \/ Engine_add_files
    \/ Engine_search
    \/ Engine_get_file_content
    \/ Engine_get_status
    \/ Simple_add
    \/ Simple_search_call
    \/ App_search

Spec == Init /\ [][Next]_vars

----------------------------------------------------------------------------
(* Helpers of the properties *)

BatchNames(batch) == {batch[i].filename : i \in 1..Len(batch)}

IsScalable == app = "app_scalable"

SearchReturned == call.op = "search" /\ result.status = "ok"

ResultNames == {result.value[i].filename : i \in 1..Len(result.value)}

\* the file_contents dict of the backend that search and get consult
ActiveContents ==
    IF current_mode = "in_memory" THEN in_memory_search.file_contents
    ELSE vector_db_search.file_contents

\* the embedding the active backend holds for a stored filename
ActiveEmbedding(f) ==
    IF current_mode = "in_memory" THEN DictGet(in_memory_search.file_embeddings, f)
    ELSE DictGet(vector_db_search.vector_db, f).embedding

\* filenames held by the in-memory backend alone
Stranded ==
    DictKeys(in_memory_search.file_contents) \ DictKeys(vector_db_search.file_contents)

----------------------------------------------------------------------------
C2_NeverBackToInMemory ==
    [][(IsScalable /\ current_mode = "vector_db") => current_mode' = "vector_db"]_vars

C2_Witness ==
    /\ IsScalable /\ ~VECTOR_DB_ENABLED
    /\ current_mode = "vector_db"
    /\ call.op = "add_files" /\ call.files = <<>>

(* C3: the add that switches the engine from in_memory to vector_db puts     *)
(* into the vector database the files of its batch and nothing else; and in  *)
(* vector_db mode a file held by the in-memory backend alone is in no search *)
(* result and get_file_content returns None for it.                          *)
C3_SwitchStep(batch) ==
    (current_mode = "in_memory" /\ current_mode' = "vector_db") =>
        /\ DictKeys(vector_db_search'.file_contents) =
              DictKeys(vector_db_search.file_contents) \cup BatchNames(batch)
        /\ DictKeys(vector_db_search'.vector_db) =
              DictKeys(vector_db_search'.file_contents)
        /\ in_memory_search' = in_memory_search

C3_StrandedUnreachable ==
    (IsScalable /\ current_mode = "vector_db") =>
        /\ SearchReturned => ResultNames \cap Stranded = {}
        /\ (call.op = "get_file_content" /\ call.filename \in Stranded) =>
              result.value = None

C3_NoBackfill ==
    [][/\ (IsScalable /\ call'.op = "add_files") => C3_SwitchStep(call'.files)
       /\ C3_StrandedUnreachable']_vars

C3_Witness ==
    /\ IsScalable /\ ~VECTOR_DB_ENABLED
    /\ current_mode = "vector_db"
    /\ call.op = "search" /\ call.query = <<"a">> /\ call.top_k = DEFAULT_TOP_K
    /\ Stranded = {"My File.txt"}
    /\ ResultNames = {"a.txt"}

C5_Step(batch) ==
    /\ file_count' = file_count + Len(batch)
    /\ IF file_count' <= IN_MEMORY_THRESHOLD /\ ~VECTOR_DB_ENABLED
       THEN /\ vector_db_search' = vector_db_search
            /\ \A f \in BatchNames(batch) :
                  DictGet(in_memory_search'.file_contents, f) = latest'[f]
       ELSE /\ in_memory_search' = in_memory_search
            /\ \A f \in BatchNames(batch) :
                  DictGet(vector_db_search'.file_contents, f) = latest'[f]

C5_CountThenRouteOnce ==
    [][(IsScalable /\ call'.op = "add_files") => C5_Step(call'.files)]_vars

C5_Witness ==
    /\ IsScalable /\ ~VECTOR_DB_ENABLED
    /\ call.op = "add_files" /\ Len(call.files) = 2
    /\ file_count = IN_MEMORY_THRESHOLD + 1
    /\ DictKeys(vector_db_search.file_contents) = {"a.txt", "My File.txt"}
    /\ in_memory_search.file_contents # <<>>

(* C6: add_files with an empty list changes nothing: not the mode, the       *)
(* count or either backend of ScalableSearchEngine, and not the file list or *)
(* the embeddings of app_simple.py's SemanticSearch.                         *)
C6_EmptyAddIsNoOp ==
    [][(call'.op = "add_files" /\ call'.files = <<>>) =>
          UNCHANGED <<scalable_vars, simple_vars>>]_vars

(* C7: a search on an engine that never received a document returns the      *)
(* empty list and raises nothing, also after add_files([]) calls.            *)
C7_SearchOnEmpty ==
    /\ (IsScalable /\ call.op = "search" /\ file_count = 0) => result = Ok(<<>>)
    /\ (app = "app_simple" /\ call.op = "search" /\ embeddings.is_none) =>
          result = Ok(<<>>)

C7_Witness ==
    /\ IsScalable /\ VECTOR_DB_ENABLED
    /\ call.op = "search"
    /\ file_count = 0
    /\ current_mode = "vector_db"   \* an add_files([]) went before
    /\ result = Ok(<<>>)

(* C8: adding a file under a stored filename replaces its text and its       *)
(* embedding; a search scores and excerpts each filename from the text of    *)
(* its most recent add only, and returns a filename at most once.            *)
C8_LastWriteWins ==
    IsScalable =>
        /\ Len(ActiveContents) = Cardinality(DictKeys(ActiveContents))
        /\ \A f \in DictKeys(ActiveContents) :
              /\ DictGet(ActiveContents, f) = latest[f]
              /\ ActiveEmbedding(f) = Encode(latest[f])
        /\ SearchReturned =>
              \A i \in 1..Len(result.value) :
                 LET r == result.value[i]
                 IN  /\ latest[r.filename] # None
                     /\ r.content_snippet = Snippet(latest[r.filename])
                     /\ r.similarity_score =
                           cosine_similarity(Encode(call.query), Encode(latest[r.filename]))
                     /\ \A j \in 1..Len(result.value) :
                           result.value[j].filename = r.filename => j = i

C8_Witness ==
    /\ IsScalable
    /\ current_mode = "vector_db"
    /\ DictGet(in_memory_search.file_contents, "a.txt") = TextA
    /\ latest["a.txt"] = TextD
    /\ SearchReturned
    /\ "a.txt" \in ResultNames

\* the documents a search ranks, in insertion order
SearchedCorpus ==
    CASE app = "app_scalable" ->
            [i \in 1..Len(ActiveContents) |->
                [filename |-> ActiveContents[i].key, content |-> ActiveContents[i].val]]
      [] app = "app_simple" ->
            [i \in 1..Len(file_contents) |->
                [filename |-> file_contents[i].filename,
                 content |-> file_contents[i].content]]
      [] app = "app" ->
            [i \in 1..Len(call.files) |->
                [filename |-> call.files[i].filename, content |-> call.files[i].content]]

(* C9: every search returns its results in non-increasing order of score,    *)
(* and results of equal score in the order in which their documents were     *)
(* inserted.                                                                 *)
C9_RankingOrder ==
    SearchReturned =>
        LET res == result.value
            corpus == SearchedCorpus
        IN  /\ \A i, j \in 1..Len(res) :
                  i < j => ScoreGE(res[i].similarity_score, res[j].similarity_score)
            /\ \E pos \in [1..Len(res) -> 1..Len(corpus)] :
                  /\ \A i \in 1..Len(res) :
                        /\ res[i].filename = corpus[pos[i]].filename
                        /\ res[i].content_snippet = Snippet(corpus[pos[i]].content)
                  /\ \A i, j \in 1..Len(res) :
                        (i < j /\ res[i].similarity_score = res[j].similarity_score)
                           => pos[i] < pos[j]

C9_Witness ==
    /\ app = "app_simple"
    /\ SearchReturned
    /\ Len(result.value) = 3
    /\ result.value[1].similarity_score = result.value[2].similarity_score
    /\ result.value[1].filename # result.value[2].filename
    /\ ScoreGT(result.value[2].similarity_score, result.value[3].similarity_score)

(* C10: no search of any of the three programs returns a result whose score  *)
(* is below 0.1.                                                             *)
C10_NoResultBelowMinScore ==
    SearchReturned =>
        \A i \in 1..Len(result.value) :
            AboveThreshold(result.value[i].similarity_score)

----------------------------------------------------------------------------
(* app_simple.py: the /search and /file handlers over uploaded_files_storage. *)
(* A filename is a sequence of one-character strings.                       *)

\* documents in one upload to the /search handler of app_simple.py
MaxUpload == 1

NameSpaced == <<"a", " ", "b", ".", "m", "d">>
NameUnderscored == <<"a", "_", "b", ".", "m", "d">>
NameEscaped == <<"a", "%", "2", "0", "b", ".", "m", "d">>
NameInFolder == <<"d", "/", "a", " ", "b", ".", "m", "d">>
NameUnsupported == <<"a", ".", "p", "y">>
NameUnknown == <<"z", ".", "m", "d">>
Folder == <<"d", "/">>

\* every upload carries its own text, so the text tells the documents apart
UploadNames == {NameSpaced, NameUnderscored, NameEscaped, NameInFolder, NameUnsupported}
UploadText(name) ==
    CASE name = NameSpaced -> <<"a", "1">>
      [] name = NameUnderscored -> <<"a", "2">>
      [] name = NameEscaped -> <<"a", "3">>
      [] name = NameInFolder -> <<"d", "4">>
      [] OTHER -> <<"a", "5">>
Uploads == SeqsUpTo([filename : UploadNames], MaxUpload)

\* str.replace(old, new) for single characters
Replace(s, old, new) == [i \in 1..Len(s) |-> IF s[i] = old THEN new ELSE s[i]]

\* str.endswith
EndsWith(s, suffix) ==
    /\ Len(suffix) <= Len(s)
    /\ SubSeq(s, Len(s) - Len(suffix) + 1, Len(s)) = suffix

\* os.path.basename: what follows the last "/"
Basename(s) ==
    LET slashes == {i \in 1..Len(s) : s[i] = "/"}
        last == IF slashes = {} THEN 0 ELSE CHOOSE i \in slashes : \A j \in slashes : j <= i
    IN  SubSeq(s, last + 1, Len(s))

\* filename.lower().split('.')[-1]; the names of the model are lower case
FileExtension(s) ==
    LET dots == {i \in 1..Len(s) : s[i] = "."}
        last == IF dots = {} THEN 0 ELSE CHOOSE i \in dots : \A j \in dots : j <= i
    IN  SubSeq(s, last + 1, Len(s))

SupportedExtensions ==
    {<<"t", "x", "t">>, <<"p", "d", "f">>, <<"m", "d">>, <<"d", "o", "c", "x">>}

\* the escapes that occur in the names of the model
Escapes == {<<"2", "0">>, <<"2", "5">>, <<"2", "F">>, <<"5", "F">>}
Unescape(pair) ==
    CASE pair = <<"2", "0">> -> " "
      [] pair = <<"2", "5">> -> "%"
      [] pair = <<"2", "F">> -> "/"
      [] pair = <<"5", "F">> -> "_"

\* urllib.parse.unquote: %XX becomes its character, anything else stays
RECURSIVE UnquoteFrom(_, _)
UnquoteFrom(s, i) ==
    IF i > Len(s) THEN <<>>
    ELSE IF s[i] = "%" /\ i + 2 <= Len(s) /\ <<s[i + 1], s[i + 2]>> \in Escapes
    THEN <<Unescape(<<s[i + 1], s[i + 2]>>)>> \o UnquoteFrom(s, i + 3)
    ELSE <<s[i]>> \o UnquoteFrom(s, i + 1)

Unquote(s) == UnquoteFrom(s, 1)

\* urllib.parse.quote with safe="/": letters, digits and "_.-~/" stay
QuoteChar(c) ==
    CASE c = " " -> <<"%", "2", "0">>
      [] c = "%" -> <<"%", "2", "5">>
      [] OTHER -> <<c>>

RECURSIVE QuoteFrom(_, _)
QuoteFrom(s, i) ==
    IF i > Len(s) THEN <<>> ELSE QuoteChar(s[i]) \o QuoteFrom(s, i + 1)

Quote(s) == QuoteFrom(s, 1)

\* FileProcessor.process_file: <<>> stands for None, <<file>> for a dict
process_file(file) ==
    LET content == UploadText(file.filename)
    IN  IF FileExtension(file.filename) \notin SupportedExtensions THEN <<>>
        ELSE IF Strip(content) = <<>> THEN <<>>
        ELSE <<[filename |-> file.filename, content |-> content,
                file_path |-> file.filename, full_path |-> file.filename]>>

\* the five assignments that store one processed file
StoreKeys(storage, processed_file) ==
    LET original_filename == processed_file.filename
        normalized_filename == Replace(original_filename, " ", "_")
        url_encoded == Quote(original_filename)
        just_filename == Basename(original_filename)
        s1 == DictSet(storage, original_filename, processed_file)
        s2 == DictSet(s1, normalized_filename, processed_file)
        s3 == DictSet(s2, processed_file.full_path, processed_file)
        s4 == DictSet(s3, url_encoded, processed_file)
    IN  DictSet(s4, just_filename, processed_file)

\* the loop over the uploaded files, from files[i] on:
\* [processed_files, storage] when it ends
RECURSIVE ProcessUploads(_, _, _, _)
ProcessUploads(files, i, processed_files, storage) ==
    IF i > Len(files)
    THEN [processed_files |-> processed_files, storage |-> storage]
    ELSE IF FileExtension(files[i].filename) \notin SupportedExtensions
    THEN ProcessUploads(files, i + 1, processed_files, storage)
    ELSE LET processed_file == process_file(files[i])
         IN  IF processed_file = <<>>
             THEN ProcessUploads(files, i + 1, processed_files, storage)
             ELSE ProcessUploads(files, i + 1,
                                 Append(processed_files, processed_file[1]),
                                 StoreKeys(storage, processed_file[1]))

\* result['full_path'] of the handler: the first processed file of that name
WithFullPath(r, processed_files) ==
    [filename |-> r.filename,
     content_snippet |-> r.content_snippet,
     similarity_score |-> r.similarity_score,
     file_path |-> r.file_path,
     full_path |->
        processed_files[CHOOSE i \in 1..Len(processed_files) :
                           /\ processed_files[i].filename = r.filename
                           /\ \A j \in 1..(i - 1) :
                                 processed_files[j].filename # r.filename].full_path]

WithFullPaths(results, processed_files) ==
    [i \in 1..Len(results) |-> WithFullPath(results[i], processed_files)]

\* POST /search of app_simple.py once the uploads are processed
SearchProcessed(self, query, processed_files, storage) ==
    IF processed_files = <<>>
    THEN \* the HTTPException(400) is caught by "except Exception"
         [file_contents |-> self.file_contents,
          embeddings |-> self.embeddings,
          uploaded_files_storage |-> storage,
          response |-> Raised("500")]
    ELSE LET index == Simple_add_files([file_contents |-> self.file_contents,
                                        embeddings |-> self.embeddings],
                                       processed_files)
             found == Simple_search(index, query, SIMPLE_DEFAULT_TOP_K)
         IN  [file_contents |-> index.file_contents,
              embeddings |-> index.embeddings,
              uploaded_files_storage |-> storage,
              response |-> IF found.status = "ok"
                           THEN Ok(WithFullPaths(found.value, processed_files))
                           ELSE Raised("500")]

\* POST /search of app_simple.py on the record
\* [file_contents, embeddings, uploaded_files_storage]:
\* the state it leaves and the response
Simple_search_files(self, query, files) ==
    LET done == ProcessUploads(files, 1, <<>>, self.uploaded_files_storage)
    IN  SearchProcessed(self, query, done.processed_files, done.storage)

\* the loop "for key in uploaded_files_storage.keys()": index of the first
\* key that ends with the name or that the name ends with, 0 when none does
PartialMatch(storage, decoded_filename) ==
    LET hits == {i \in 1..Len(storage) :
                    \/ EndsWith(storage[i].key, decoded_filename)
                    \/ EndsWith(decoded_filename, storage[i].key)}
    IN  IF hits = {} THEN 0 ELSE CHOOSE i \in hits : \A j \in hits : i <= j

FileResponse(file_data) ==
    Ok([filename |-> file_data.filename, content |-> file_data.content])

\* faulty variant: the name as given is tried before its decoded form
GetFileContentGivenFirst(storage, filename) ==
    LET decoded_filename == Unquote(filename)
        normalized_filename == Replace(decoded_filename, " ", "_")
        denormalized_filename == Replace(decoded_filename, "_", " ")
        just_filename == Basename(decoded_filename)
        partial == PartialMatch(storage, decoded_filename)
    IN  IF filename \in DictKeys(storage)
        THEN FileResponse(DictGet(storage, filename))
        ELSE IF decoded_filename \in DictKeys(storage)
        THEN FileResponse(DictGet(storage, decoded_filename))
        ELSE IF normalized_filename \in DictKeys(storage)
        THEN FileResponse(DictGet(storage, normalized_filename))
        ELSE IF denormalized_filename \in DictKeys(storage)
        THEN FileResponse(DictGet(storage, denormalized_filename))
        ELSE IF just_filename \in DictKeys(storage)
        THEN FileResponse(DictGet(storage, just_filename))
        ELSE IF partial # 0
        THEN FileResponse(storage[partial].val)
        ELSE Raised("404")

\* faulty variant: the step that turns spaces into underscores is missing
GetFileContentNoNormalized(storage, filename) ==
    LET decoded_filename == Unquote(filename)
        denormalized_filename == Replace(decoded_filename, "_", " ")
        just_filename == Basename(decoded_filename)
        partial == PartialMatch(storage, decoded_filename)
    IN  IF decoded_filename \in DictKeys(storage)
        THEN FileResponse(DictGet(storage, decoded_filename))
        ELSE IF filename \in DictKeys(storage)
        THEN FileResponse(DictGet(storage, filename))
        ELSE IF denormalized_filename \in DictKeys(storage)
        THEN FileResponse(DictGet(storage, denormalized_filename))
        ELSE IF just_filename \in DictKeys(storage)
        THEN FileResponse(DictGet(storage, just_filename))
        ELSE IF partial # 0
        THEN FileResponse(storage[partial].val)
        ELSE Raised("404")

\* GET /file/{filename} of app_simple.py
Simple_get_file_content(storage, filename) ==
    LET decoded_filename == Unquote(filename)
        normalized_filename == Replace(decoded_filename, " ", "_")
        denormalized_filename == Replace(decoded_filename, "_", " ")
        just_filename == Basename(decoded_filename)
        partial == PartialMatch(storage, decoded_filename)
    IN  IF decoded_filename \in DictKeys(storage)
        THEN FileResponse(DictGet(storage, decoded_filename))
        ELSE IF filename \in DictKeys(storage)
        THEN FileResponse(DictGet(storage, filename))
        ELSE IF normalized_filename \in DictKeys(storage)
        THEN FileResponse(DictGet(storage, normalized_filename))
        ELSE IF denormalized_filename \in DictKeys(storage)
        THEN FileResponse(DictGet(storage, denormalized_filename))
        ELSE IF just_filename \in DictKeys(storage)
        THEN FileResponse(DictGet(storage, just_filename))
        ELSE IF partial # 0
        THEN FileResponse(storage[partial].val)
        ELSE Raised("404")

\* the names a client may ask for: the uploaded names, their encoded,
\* underscored, spaced and folder-prefixed forms, and a name never uploaded
RequestedNames ==
    UploadNames
    \cup {Quote(n) : n \in UploadNames}
    \cup {Replace(n, " ", "_") : n \in UploadNames}
    \cup {Replace(n, "_", " ") : n \in UploadNames}
    \cup {Folder \o n : n \in UploadNames}
    \cup {NameUnknown}

Upload_search_files ==
    /\ app = "app_simple"
    /\ \E query \in {<<"a">>}, files \in Uploads :
          \E after \in {Simple_search_files(
                         [file_contents |-> file_contents, embeddings |-> embeddings,
                          uploaded_files_storage |-> uploaded_files_storage],
                         query, files)} :
              /\ file_contents' = after.file_contents
              /\ embeddings' = after.embeddings
              /\ uploaded_files_storage' = after.uploaded_files_storage
              /\ call' = [op |-> "search_files", query |-> query, files |-> files]
              /\ result' = after.response
    /\ UNCHANGED <<app, VECTOR_DB_ENABLED, scalable_vars, latest>>

Upload_get_file_content ==
    /\ app = "app_simple"
    /\ \E filename \in RequestedNames :
          /\ call' = [op |-> "get_file_content", filename |-> filename]
          /\ result' = Simple_get_file_content(uploaded_files_storage, filename)
    /\ UNCHANGED <<app, VECTOR_DB_ENABLED, scalable_vars, simple_vars,
                   uploaded_files_storage, latest>>

InitLookup == Init /\ app = "app_simple"

NextLookup ==
    \/ Upload_search_files
    \/ Upload_get_file_content

SpecLookup == InitLookup /\ [][NextLookup]_vars

----------------------------------------------------------------------------
(* app_scalable.py: a failing embedding provider, and the /search handler   *)

\* add_files when model.encode raises on batch[k]: the count and the mode
\* are already set and the documents before batch[k] are stored when the
\* exception leaves the loop
Scalable_add_files_raising(self, enabled, batch, k) ==
    LET count == self.file_count + Len(batch)
        mode == SelectMode(count, enabled)
    IN  RouteAdd(self, count, mode, SubSeq(batch, 1, k - 1))

\* search_engine.search(query, file_contents) of the handler: the list of
\* files arrives as top_k, and results[:top_k] raises TypeError unless the
\* backend returned [] before it got there
Scalable_search_with_list(self, query) ==
    IF self.current_mode = "in_memory"
    THEN (IF self.in_memory_search.file_embeddings = <<>>
          THEN Ok(<<>>) ELSE Raised("TypeError"))
    ELSE (IF self.vector_db_search.vector_db = <<>>
          THEN Ok(<<>>) ELSE Raised("TypeError"))

\* POST /search of app_scalable.py with the valid files of the request:
\* [engine, response]
Scalable_search_files(self, enabled, query, files) ==
    IF files = <<>>
    THEN [engine |-> self, response |-> Raised("400")]
    ELSE LET after == Scalable_add_files(self, enabled, files)
             results == Scalable_search_with_list(after, query)
         IN  [engine |-> after,
              response |-> IF results.status = "ok" THEN results ELSE Raised("500")]

\* add_files(batch) with the provider failing on batch[k]
AddFilesRaising(batch, k) ==
    /\ app = "app_scalable"
    /\ file_count + Len(batch) <= IN_MEMORY_THRESHOLD + MaxExtra
    /\ \E after \in {Scalable_add_files_raising(search_engine, VECTOR_DB_ENABLED,
                                               batch, k)} :
          /\ file_count' = after.file_count
          /\ current_mode' = after.current_mode
          /\ in_memory_search' = after.in_memory_search
          /\ vector_db_search' = after.vector_db_search
    /\ latest' = LatestAfter(latest, SubSeq(batch, 1, k - 1))
    /\ call' = [op |-> "add_files", files |-> batch, raised_at |-> k]
    /\ result' = Raised("EncodeError")
    /\ UNCHANGED <<app, VECTOR_DB_ENABLED, simple_vars, uploaded_files_storage>>

Engine_add_files_raising ==
    \E batch \in Batches : \E k \in 1..Len(batch) : AddFilesRaising(batch, k)

Service_search_files ==
    /\ app = "app_scalable"
    /\ \E query \in {<<"a">>}, files \in Batches :
          /\ file_count + Len(files) <= IN_MEMORY_THRESHOLD + MaxExtra
          /\ \E done \in {Scalable_search_files(search_engine, VECTOR_DB_ENABLED,
                                               query, files)} :
                /\ file_count' = done.engine.file_count
                /\ current_mode' = done.engine.current_mode
                /\ in_memory_search' = done.engine.in_memory_search
                /\ vector_db_search' = done.engine.vector_db_search
                /\ result' = done.response
          /\ latest' = LatestAfter(latest, files)
          /\ call' = [op |-> "search_files", query |-> query, files |-> files]
    /\ UNCHANGED <<app, VECTOR_DB_ENABLED, simple_vars, uploaded_files_storage>>

InitService == Init /\ app = "app_scalable"

NextService ==
    \/ Engine_add_files
    \/ Engine_search
    \/ Engine_get_file_content
    \/ Engine_get_status
    \/ Engine_add_files_raising
    \/ Service_search_files

SpecService == InitService /\ [][NextService]_vars

----------------------------------------------------------------------------
(* app.py: searches over a single document, with texts on both sides of the *)
(* excerpt length                                                           *)

\* length of the short texts
MaxShortText == 3

ExcerptAlphabet == {"a", " ", "\n", "."}
ShortTexts == SeqsUpTo(ExcerptAlphabet, MaxShortText)

\* texts of SNIPPET_LENGTH and of SNIPPET_LENGTH + 1 characters: a run
\* of "c" and two characters at the end
LongTexts ==
    {[i \in 1..(n - 2) |-> "c"] \o tail :
        n \in {SNIPPET_LENGTH, SNIPPET_LENGTH + 1},
        tail \in [1..2 -> ExcerptAlphabet]}

ExcerptTexts == ShortTexts \cup LongTexts

App_search_one ==
    /\ app = "app"
    /\ \E text \in ExcerptTexts :
          LET files == <<MakeDoc("a.txt", text)>>
          IN  /\ call' = [op |-> "search", query |-> <<"a">>, files |-> files,
                          top_k |-> DEFAULT_TOP_K]
              /\ result' = Ok(App_search_results(<<"a">>, files, DEFAULT_TOP_K))
    /\ UNCHANGED <<app, VECTOR_DB_ENABLED, scalable_vars, simple_vars,
                   uploaded_files_storage, latest>>

InitExcerpt == Init /\ app = "app"

NextExcerpt == App_search_one

SpecExcerpt == InitExcerpt /\ [][NextExcerpt]_vars

----------------------------------------------------------------------------
(* Helpers of the lookup properties *)

IsFileRequest == app = "app_simple" /\ call.op = "get_file_content"

\* the upload that has just been answered stored at least one file
JustUploaded == app = "app_simple" /\ call.op = "search_files" /\ result.status = "ok"

\* the file the last upload stored last
LastUploaded == file_contents[Len(file_contents)]

StoredKeys == DictKeys(uploaded_files_storage)
StoredUnder(key) == DictGet(uploaded_files_storage, key)

\* what a request for name would be answered now
Resolve(name) == Simple_get_file_content(uploaded_files_storage, name)

\* key is stored and leads to a document other than doc
OtherUnder(key, doc) == key \in StoredKeys /\ StoredUnder(key) # doc

----------------------------------------------------------------------------
(* C11 *)

\* the keys a request for name looks up, in the order of the amended claim
C11_Tried(name) ==
    <<Unquote(name),
      name,
      Replace(Unquote(name), " ", "_"),
      Replace(Unquote(name), "_", " "),
      Basename(Unquote(name))>>

C11_Expected(name) ==
    LET tried == C11_Tried(name)
        stored == {i \in 1..Len(tried) : tried[i] \in StoredKeys}
        related == {i \in 1..Len(uploaded_files_storage) :
                       \/ EndsWith(uploaded_files_storage[i].key, Unquote(name))
                       \/ EndsWith(Unquote(name), uploaded_files_storage[i].key)}
    IN  IF stored # {}
        THEN FileResponse(StoredUnder(tried[CHOOSE i \in stored : \A j \in stored : i <= j]))
        ELSE IF related # {}
        THEN FileResponse(uploaded_files_storage[
                              CHOOSE i \in related : \A j \in related : i <= j].val)
        ELSE Raised("404")

\* C11 (amended): a file request looks the name up (1) percent-decoded,
\* (2) as given, (3) decoded with spaces turned into underscores, (4) decoded
\* with underscores turned into spaces, (5) decoded and cut to its basename,
\* (6) as the first stored key that ends with the decoded name or that the
\* decoded name ends with, and answers with the first match (404 when there
\* is none); when the name as given and its decoded form are stored keys of
\* different documents, the document under the decoded form is returned.
C11_DecodedNameFirst ==
    IsFileRequest =>
        /\ result = C11_Expected(call.filename)
        /\ (/\ call.filename \in StoredKeys
            /\ Unquote(call.filename) \in StoredKeys
            /\ StoredUnder(call.filename) # StoredUnder(Unquote(call.filename)))
           => result = FileResponse(StoredUnder(Unquote(call.filename)))

\* a request for "a%20b.md" while that name and "a b.md" are keys of two
\* different documents, answered with the document stored as "a b.md"
C11_Witness ==
    /\ IsFileRequest
    /\ call.filename = NameEscaped
    /\ NameEscaped \in StoredKeys
    /\ NameSpaced \in StoredKeys
    /\ StoredUnder(NameEscaped).filename = NameEscaped
    /\ StoredUnder(NameSpaced).filename = NameSpaced
    /\ result = FileResponse(StoredUnder(NameSpaced))

\* C11 as stated: when the name as given and its percent-decoded form are
\* stored keys of different documents, the document under the name as given
\* is returned.
C11_GivenNameFirst ==
    (/\ IsFileRequest
     /\ call.filename \in StoredKeys
     /\ Unquote(call.filename) \in StoredKeys
     /\ StoredUnder(call.filename) # StoredUnder(Unquote(call.filename)))
    => result = FileResponse(StoredUnder(call.filename))

----------------------------------------------------------------------------
(* C12 *)

\* C12 (amended): right after an upload whose last stored file has the name
\* d, a request for d percent-encoded returns that file; if d holds no
\* percent escape, so do a request for d itself and for d with spaces turned
\* into underscores, and so do a request for d with underscores turned into
\* spaces and for d behind a directory path unless a different document is
\* stored under that requested name (for the directory form: or under its
\* underscored or spaced variant).
C12_FormsAfterUpload ==
    JustUploaded =>
        LET doc == LastUploaded
            d == doc.filename
            spaced == Replace(d, "_", " ")
            behind == Folder \o d
        IN  /\ Resolve(Quote(d)) = FileResponse(doc)
            /\ Unquote(d) = d =>
                  /\ Resolve(d) = FileResponse(doc)
                  /\ Resolve(Replace(d, " ", "_")) = FileResponse(doc)
                  /\ ~OtherUnder(spaced, doc) => Resolve(spaced) = FileResponse(doc)
                  /\ (/\ ~OtherUnder(behind, doc)
                      /\ ~OtherUnder(Replace(behind, " ", "_"), doc)
                      /\ ~OtherUnder(Replace(behind, "_", " "), doc))
                     => Resolve(behind) = FileResponse(doc)

\* "a_b.md" has just been uploaded next to another document, and the
\* requests for "a b.md" and "d/a_b.md" both lead to it
C12_Witness ==
    /\ JustUploaded
    /\ LastUploaded.filename = NameUnderscored
    /\ NameEscaped \in StoredKeys
    /\ Resolve(NameSpaced) = FileResponse(LastUploaded)
    /\ Resolve(Folder \o NameUnderscored) = FileResponse(LastUploaded)

\* C12 as stated: right after a document is added under d, a request for d,
\* d percent-encoded, d with spaces as underscores, d with underscores as
\* spaces and d behind a directory path all return that document.
C12_AllFormsAlways ==
    JustUploaded =>
        LET doc == LastUploaded
            d == doc.filename
        IN  /\ Resolve(d) = FileResponse(doc)
            /\ Resolve(Quote(d)) = FileResponse(doc)
            /\ Resolve(Replace(d, " ", "_")) = FileResponse(doc)
            /\ Resolve(Replace(d, "_", " ")) = FileResponse(doc)
            /\ Resolve(Folder \o d) = FileResponse(doc)

----------------------------------------------------------------------------
(* C13, C14, C15 *)

\* the add_files call that has just ended met a provider failure
AddMetFailure == IsScalable /\ call.op = "add_files" /\ "raised_at" \in DOMAIN call

\* C13: when the provider fails for one document of an add batch, no
\* exception leaves add and every other document of the batch is stored in
\* the active backend.
C13_FailedDocumentAloneDropped ==
    AddMetFailure =>
        /\ result.status = "ok"
        /\ \A i \in 1..Len(call.files) :
              i # call.raised_at => call.files[i].filename \in DictKeys(ActiveContents)

\* C14: an add, a search or a /search request that ends in an error leaves
\* active backend, file count and stored documents as they were.
C14_ErrorLeavesStateUnchanged ==
    [][(/\ IsScalable
        /\ call'.op \in {"add_files", "search", "search_files"}
        /\ result'.status = "error")
       => UNCHANGED scalable_vars]_vars

\* C15: a search with a negative top_k ends in InvalidArgument.
C15_NegativeTopKRejected ==
    (call.op = "search" /\ call.top_k < 0) =>
        (result.status = "error" /\ result.error = "InvalidArgument")

----------------------------------------------------------------------------
(* C16 *)

\* a search of app.py over one document has returned its result
ExcerptReturned ==
    /\ app = "app"
    /\ call.op = "search"
    /\ Len(call.files) = 1
    /\ result.status = "ok"
    /\ Len(result.value) = 1

ExcerptText == call.files[1].content
Excerpt == result.value[1].content_snippet

\* e is s without the whitespace at its two ends
C16_IsTrimOf(e, s) ==
    \E lo \in 1..(Len(s) + 1) :
        LET hi == lo + Len(e) - 1
        IN  /\ hi <= Len(s)
            /\ SubSeq(s, lo, hi) = e
            /\ \A i \in 1..Len(s) : (i < lo \/ i > hi) => s[i] \in Whitespace
            /\ e # <<>> => (e[1] \notin Whitespace /\ e[Len(e)] \notin Whitespace)

----------------------------------------------------------------------------
(* C17, C18, C19 *)

IndexedNames(contents) == {contents[i].filename : i \in 1..Len(contents)}

\* C17: no step removes a document from the store or index that holds it.
C17_CorpusOnlyGrows ==
    [][/\ DictKeys(in_memory_search.file_contents)
            \subseteq DictKeys(in_memory_search'.file_contents)
       /\ DictKeys(vector_db_search.file_contents)
            \subseteq DictKeys(vector_db_search'.file_contents)
       /\ IndexedNames(file_contents) \subseteq IndexedNames(file_contents')]_vars

\* C18: a document that a request for its own name returns is still
\* returned for that name after an upload of files with other names.
C18_OwnNameKeepsDocument ==
    [][\A name \in StoredKeys :
          (/\ app = "app_simple"
           /\ StoredUnder(name).filename = name
           /\ Resolve(name) = FileResponse(StoredUnder(name))
           /\ call'.op = "search_files"
           /\ \A i \in 1..Len(call'.files) : call'.files[i].filename # name)
          => Simple_get_file_content(uploaded_files_storage', name)
                = FileResponse(StoredUnder(name))]_vars

StoredEntries ==
    Len(in_memory_search.file_contents) + Len(vector_db_search.file_contents)

\* C19: file_count is never negative, never decreases, is never below the
\* number of entries the two backends hold together, and every add_files
\* call raises it by the length of its batch, stored names included.
C19_FileCountCountsEveryDocument ==
    [][IsScalable =>
          /\ file_count >= 0 /\ file_count' >= 0
          /\ file_count' >= file_count
          /\ file_count >= StoredEntries /\ file_count' >= StoredEntries'
          /\ call'.op = "add_files" => file_count' = file_count + Len(call'.files)]_vars

\* one add_files call took the count past the threshold and switched to
\* vector_db while the two backends hold a single entry between them
C19_Witness ==
    /\ IsScalable
    /\ ~VECTOR_DB_ENABLED
    /\ call.op = "add_files"
    /\ file_count = IN_MEMORY_THRESHOLD + 1
    /\ current_mode = "vector_db"
    /\ StoredEntries = 1

====
